---- MODULE Spec2Model ----
(***************************************************************************)
(* Model of selfdrive/car/docs.py: the footnote indexer, the car-info      *)
(* collector, the natural sort, group_by_make, generate_cars_md and the    *)
(* command-line main loop.                                                 *)
(***************************************************************************)
EXTENDS Integers, Sequences, FiniteSets, TLC

VARIABLES
  pc,                 \* position of the program
  common_footnotes,   \* list(CommonFootnote)
  brand_footnotes,    \* get_interface_attr("Footnote", ignore_none=True).values()
  footnotes,          \* the dict returned by get_all_footnotes (insertion ordered)
  footnote_texts,     \* the list "footnotes" built in generate_cars_md
  rec_name,           \* CarInfo.name of every record
  rec_make,           \* CarInfo.make of every record
  rec_row,            \* per record: the "row" attribute and who initialised it
  calls,              \* init_make / init calls made so far, in order
  model_dashcam,      \* CP.dashcamOnly of every model
  model_info,         \* get_interface_attr("CAR_INFO", combine_brands=True)
  interfaces,         \* the models that have an entry in interfaces
  all_car_info,       \* the list collected / handed over
  sorted_cars,        \* the list returned by get_all_car_info
  grouped,            \* the dict returned by group_by_make
  args_out,           \* args.out
  args_template,      \* args.template
  args_dashcam_only,  \* args.dashcam_only
  template_fs,        \* what lies at each template path
  idx,                \* pairs zip() has yielded so far
  dashcam_only,       \* the local dashcam_only of the main loop
  files,              \* the output files
  template,           \* the template loaded by generate_cars_md
  cars_md,            \* the rendered text
  printed,            \* the lines printed so far
  log,                \* the steps of the main loop performed so far
  err                 \* the unhandled exception that ended the run, if any

vars == <<pc, common_footnotes, brand_footnotes, footnotes, footnote_texts,
          rec_name, rec_make, rec_row, calls, model_dashcam, model_info,
          interfaces, all_car_info, sorted_cars, grouped, args_out,
          args_template, args_dashcam_only, template_fs, idx, dashcam_only,
          files, template, cars_md, printed, log, err>>

(***************************************************************************)
(* Bounds of the model.                                                    *)
(***************************************************************************)
MaxFootnotes == 2   \* longest footnote list of one source
MaxBrands == 2      \* most brands that register footnotes
MaxCars == 3        \* longest record list handed to the sort / the grouper
MaxPairs == 2       \* longest --out / --template list

Range(s) == {s[i] : i \in 1..Len(s)}

SeqsUpTo(S, n) == UNION {[1..k -> S] : k \in 0..n}

NonEmptySeqsUpTo(S, n) == UNION {[1..k -> S] : k \in 1..n}

\* the members of one enumeration, in declaration order: no member twice
EnumLists(S, n) == {s \in SeqsUpTo(S, n) : Cardinality(Range(s)) = Len(s)}

(***************************************************************************)
(* Python dict: insertion ordered; assigning an existing key keeps the     *)
(* key's place and replaces its value.                                     *)
(***************************************************************************)
DictKeys(d) == [i \in 1..Len(d) |-> d[i][1]]

DictHas(d, k) == \E i \in 1..Len(d) : d[i][1] = k

DictGet(d, k) == d[CHOOSE i \in 1..Len(d) : d[i][1] = k][2]

DictSet(d, k, v) ==
  IF DictHas(d, k)
  THEN [i \in 1..Len(d) |-> IF d[i][1] = k THEN <<k, v>> ELSE d[i]]
  ELSE Append(d, <<k, v>>)

(***************************************************************************)
(* get_all_footnotes                                                       *)
(***************************************************************************)
Footnotes == {"fnA", "fnB", "fnC"}

\* fn.value.text: two footnotes may carry the same text
FootnoteText(fn) == IF fn = "fnA" THEN "text1" ELSE IF fn = "fnB" THEN "text2" ELSE "text1"

RECURSIVE Flatten(_)
Flatten(lists) ==
  IF lists = <<>> THEN <<>> ELSE Head(lists) \o Flatten(Tail(lists))

\* all_footnotes = list(CommonFootnote); all_footnotes.extend(footnotes) per brand
AllFootnotesList(common, brands) == common \o Flatten(brands)

RECURSIVE EnumerateFrom(_, _, _)
EnumerateFrom(d, lst, i) ==
  IF i > Len(lst) THEN d
  ELSE EnumerateFrom(DictSet(d, lst[i], i), lst, i + 1)

\* a plausible slip: 0-based indices
EnumerateDictZeroBased(lst) ==
  LET d == EnumerateFrom(<<>>, lst, 1)
  IN  [i \in 1..Len(d) |-> <<d[i][1], d[i][2] - 1>>]

\* {fn: idx + 1 for idx, fn in enumerate(all_footnotes)}
EnumerateDict(lst) == EnumerateFrom(<<>>, lst, 1)

get_all_footnotes(common, brands) == EnumerateDict(AllFootnotesList(common, brands))

\* a plausible slip: the texts sorted some other way than the dict's order
FootnoteTextListReversed(d) == [i \in 1..Len(d) |-> FootnoteText(d[Len(d) + 1 - i][1])]

\* [fn.value.text for fn in get_all_footnotes()]
FootnoteTextList(d) == [i \in 1..Len(d) |-> FootnoteText(DictKeys(d)[i])]

(***************************************************************************)
(* Text.  A string is a sequence of characters; each character has its     *)
(* code point, and str.lower() maps the upper-case letters.                *)
(***************************************************************************)
Ord == [c \in {" ", "0", "1", "2", "3", "D", "E", "L", "M", "O", "d", "e", "l", "m", "o"} |->
          CASE c = " " -> 32
            [] c = "0" -> 48 [] c = "1" -> 49 [] c = "2" -> 50 [] c = "3" -> 51
            [] c = "D" -> 68 [] c = "E" -> 69 [] c = "L" -> 76 [] c = "M" -> 77
            [] c = "O" -> 79 [] c = "d" -> 100 [] c = "e" -> 101 [] c = "l" -> 108
            [] c = "m" -> 109 [] c = "o" -> 111]

IsUpper(c) == Ord[c] >= 65 /\ Ord[c] <= 90

IsDigit(c) == Ord[c] >= 48 /\ Ord[c] <= 57

DigitVal(c) == Ord[c] - 48

LowerChar(c) ==
  IF IsUpper(c) THEN CHOOSE l \in DOMAIN Ord : Ord[l] = Ord[c] + 32 ELSE c

\* str.lower()
Lower(s) == [i \in 1..Len(s) |-> LowerChar(s[i])]

\* str < str: by code point, a proper prefix first
RECURSIVE StrLess(_, _)
StrLess(a, b) ==
  IF b = <<>> THEN FALSE
  ELSE IF a = <<>> THEN TRUE
  ELSE IF Ord[Head(a)] # Ord[Head(b)] THEN Ord[Head(a)] < Ord[Head(b)]
  ELSE StrLess(Tail(a), Tail(b))

(***************************************************************************)
(* natsort (default algorithm: unsigned integers).  The key of a string is *)
(* the tuple of its chunks, text and number alternating, text first (an    *)
(* empty text chunk leads when the string starts with a digit).            *)
(***************************************************************************)
RECURSIVE DigitRun(_)
DigitRun(s) ==
  IF s = <<>> \/ ~IsDigit(Head(s)) THEN 0 ELSE 1 + DigitRun(Tail(s))

RECURSIVE TextRun(_)
TextRun(s) ==
  IF s = <<>> \/ IsDigit(Head(s)) THEN 0 ELSE 1 + TextRun(Tail(s))

RECURSIVE IntOf(_, _)
IntOf(digits, acc) ==
  IF digits = <<>> THEN acc
  ELSE IntOf(Tail(digits), 10 * acc + DigitVal(Head(digits)))

\* a chunk is [text |-> <chars>, num |-> n]; a text chunk has num = -1
RECURSIVE Chunks(_, _)
Chunks(s, wantText) ==
  IF s = <<>> THEN <<>>
  ELSE IF wantText
  THEN LET n == TextRun(s)
       IN  <<[text |-> SubSeq(s, 1, n), num |-> -1]>>
             \o Chunks(SubSeq(s, n + 1, Len(s)), FALSE)
  ELSE LET n == DigitRun(s)
       IN  <<[text |-> <<>>, num |-> IntOf(SubSeq(s, 1, n), 0)]>>
             \o Chunks(SubSeq(s, n + 1, Len(s)), TRUE)

NatKey(s) == Chunks(s, TRUE)

ChunkLess(a, b) ==
  IF a.num >= 0 THEN a.num < b.num ELSE StrLess(a.text, b.text)

\* tuple < tuple
RECURSIVE KeyLess(_, _)
KeyLess(k1, k2) ==
  IF k2 = <<>> THEN FALSE
  ELSE IF k1 = <<>> THEN TRUE
  ELSE IF ChunkLess(Head(k1), Head(k2)) THEN TRUE
  ELSE IF ChunkLess(Head(k2), Head(k1)) THEN FALSE
  ELSE KeyLess(Tail(k1), Tail(k2))

Records == {"r1", "r2", "r3"}

Names == { <<"M", "o", "d", "e", "l", " ", "1", "0">>,
           <<"M", "o", "d", "e", "l", " ", "3">>,
           <<"m", "o", "d", "e", "l", " ", "2">>,
           <<"M", "O", "D", "E", "L", " ", "3">>,
           <<"m", "o", "d", "e", "l", " ", "0", "3">>,
           <<"2", " ", "d", "o", "o", "L">> }

\* a plausible slip: the key without .lower()
SortKeyCaseSensitive(names, r) == NatKey(names[r])

\* key=lambda car: car.name.lower(), as natsorted reads it
SortKey(names, r) == NatKey(Lower(names[r]))

\* sorted() is stable: an element goes behind every element whose key is not greater
RECURSIVE InsertByKey(_, _, _)
InsertByKey(names, lst, r) ==
  IF lst = <<>> THEN <<r>>
  ELSE IF KeyLess(SortKey(names, r), SortKey(names, Head(lst)))
  THEN <<r>> \o lst
  ELSE <<Head(lst)>> \o InsertByKey(names, Tail(lst), r)

RECURSIVE SortFrom(_, _, _, _)
SortFrom(names, acc, lst, i) ==
  IF i > Len(lst) THEN acc
  ELSE SortFrom(names, InsertByKey(names, acc, lst[i]), lst, i + 1)

\* natsorted(all_car_info, key=lambda car: car.name.lower())
natsorted(names, lst) == SortFrom(names, <<>>, lst, 1)

(***************************************************************************)
(* group_by_make                                                           *)
(***************************************************************************)
Makes == {"X", "Y"}

\* a plausible slip: the record put in front of its bucket
BucketPrepend(d, make, r) ==
  IF DictHas(d, make) THEN DictSet(d, make, <<r>> \o DictGet(d, make))
  ELSE DictSet(d, make, <<r>>)

\* sorted_car_info[car_info.make].append(car_info), on a defaultdict(list)
BucketAppend(d, make, r) ==
  IF DictHas(d, make) THEN DictSet(d, make, Append(DictGet(d, make), r))
  ELSE DictSet(d, make, <<r>>)

RECURSIVE GroupFrom(_, _, _, _)
GroupFrom(makes, d, lst, i) ==
  IF i > Len(lst) THEN d
  ELSE GroupFrom(makes, BucketAppend(d, makes[lst[i]], lst[i]), lst, i + 1)

group_by_make(makes, lst) == GroupFrom(makes, <<>>, lst, 1)

(***************************************************************************)
(* get_all_car_info                                                        *)
(***************************************************************************)
\* the models, in the order get_interface_attr("CAR_INFO", ...).items() yields them
ModelOrder == <<"m1", "m2", "m3">>

Models == Range(ModelOrder)

\* a registered car-info: None, one CarInfo, or a list of CarInfo
NoInfo == [kind |-> "none", recs |-> <<"None">>]

OneInfo(r) == [kind |-> "one", recs |-> <<r>>]

ListInfo(rs) == [kind |-> "list", recs |-> rs]

\* hasattr(_car_info, "row") is false until init has run
NoRow == [has_row |-> FALSE, model |-> "-", footnotes |-> <<>>]

\* init(CP, footnotes) fills the display fields, "row" among them
InitRow(m, fns) == [has_row |-> TRUE, model |-> m, footnotes |-> fns]

\* a plausible slip: the test for "row" dropped
NeedsInitAlways(row, r) == TRUE

\* if not hasattr(_car_info, "row")
NeedsInit(row, r) == ~row[r].has_row

\* a plausible slip: the filter inverted
SkipsModelInverted(dashcamOnly, want, info) == dashcamOnly = want \/ info.kind = "none"

\* if CP.dashcamOnly != dashcam_only or car_info is None: continue
SkipsModel(dashcamOnly, want, info) == dashcamOnly # want \/ info.kind = "none"

\* the state of one call: the list so far, the records, the calls, the error raised
GatherState(row, cs) == [list |-> <<>>, row |-> row, calls |-> cs, err |-> "none"]

\* if not isinstance(car_info, list): car_info = (car_info,)
Normalize(info) == IF info.kind = "list" THEN info.recs ELSE <<info.recs[1]>>

\* the body of "for _car_info in car_info" for one record of model m; None has
\* neither "row" nor init_make
GatherRecord(g, m, fns, r) ==
  IF r = "None" THEN [g EXCEPT !.err = "AttributeError"]
  ELSE IF NeedsInit(g.row, r)
  THEN [g EXCEPT !.row = [g.row EXCEPT ![r] = InitRow(m, fns)],
                 !.calls = g.calls \o << <<"init_make", r, m>>, <<"init", r, m>> >>,
                 !.list = Append(g.list, r)]
  ELSE [g EXCEPT !.list = Append(g.list, r)]

RECURSIVE GatherRecords(_, _, _, _, _)
GatherRecords(g, m, fns, recs, i) ==
  IF i > Len(recs) \/ g.err # "none" THEN g
  ELSE GatherRecords(GatherRecord(g, m, fns, recs[i]), m, fns, recs, i + 1)

\* a plausible slip: a model without an interface passed over
GatherModelLenient(g, m, ifaces, dash, info, want, fns) ==
  IF m \notin ifaces THEN g
  ELSE IF SkipsModel(dash[m], want, info[m]) THEN g
  ELSE GatherRecords(g, m, fns, Normalize(info[m]), 1)

\* one round of "for model, car_info in ...": interfaces[model] raises KeyError
\* for a model that has no interface, before anything else is looked at
GatherModel(g, m, ifaces, dash, info, want, fns) ==
  IF m \notin ifaces THEN [g EXCEPT !.err = "KeyError"]
  ELSE IF SkipsModel(dash[m], want, info[m]) THEN g
  ELSE GatherRecords(g, m, fns, Normalize(info[m]), 1)

RECURSIVE GatherFrom(_, _, _, _, _, _, _)
GatherFrom(g, i, ifaces, dash, info, want, fns) ==
  IF i > Len(ModelOrder) \/ g.err # "none" THEN g
  ELSE GatherFrom(GatherModel(g, ModelOrder[i], ifaces, dash, info, want, fns),
                  i + 1, ifaces, dash, info, want, fns)

\* get_all_car_info up to the sort
Collect(row, cs, ifaces, dash, info, want, fns) ==
  GatherFrom(GatherState(row, cs), 1, ifaces, dash, info, want, fns)

(***************************************************************************)
(* generate_cars_md and the main loop                                      *)
(***************************************************************************)
Paths == {"o1", "o2"}

Templates == {"t1", "t2"}

NoMd == [template |-> "-", cars |-> <<>>, footnotes |-> <<>>, groups |-> <<>>]

File(state, md) == [state |-> state, md |-> md]

\* before the run o1 holds an earlier output and o2 does not exist
InitialFiles == [p \in Paths |-> IF p = "o1" THEN File("old", NoMd) ELSE File("absent", NoMd)]

\* template.render(all_car_info=..., group_by_make=..., footnotes=..., ...)
RenderMd(t, cars, texts, makes) ==
  [template |-> t, cars |-> cars, footnotes |-> texts, groups |-> group_by_make(makes, cars)]

\* any(t == template for t in args.dashcam_only)
IsDashcamTemplate(t, lst) == \E i \in 1..Len(lst) : lst[i] = t

\* zip(args.out, args.template, strict=True), asked for pair i + 1
ZipOutcome(i, outs, tmpls) ==
  IF i >= Len(outs) /\ i >= Len(tmpls) THEN "stop"
  ELSE IF i >= Len(outs) \/ i >= Len(tmpls) THEN "ValueError"
  ELSE "pair"

\* a plausible slip: the line printed as soon as the file is open
StepsPrintEarly == <<"open", "print", "gather", "read", "render", "write">>

\* a plausible slip: the output opened only once the text is rendered
StepsOpenLate == <<"gather", "read", "render", "open", "write", "print">>

\* the steps of one round of the main loop, in the order the code takes them
Steps == <<"open", "gather", "read", "render", "write", "print">>

NextStep(step) == Steps[(CHOOSE i \in 1..Len(Steps) : Steps[i] = step) + 1]

Event(step, pair) == <<step, pair>>

RunUnchanged == UNCHANGED <<common_footnotes, brand_footnotes, rec_name, rec_make,
                            model_dashcam, model_info, interfaces, args_out,
                            args_template, args_dashcam_only, template_fs>>

\* for out, template in zip(args.out, args.template, strict=True)
ZipNext ==
  /\ pc = "zip"
  /\ LET o == ZipOutcome(idx, args_out, args_template)
     IN  IF o = "pair" THEN pc' = Steps[1] /\ idx' = idx + 1 /\ err' = err
         ELSE IF o = "stop" THEN pc' = "done" /\ idx' = idx /\ err' = err
         ELSE pc' = "error" /\ idx' = idx /\ err' = o
  /\ RunUnchanged
  /\ UNCHANGED <<footnotes, footnote_texts, rec_row, calls, all_car_info, sorted_cars,
                 grouped, dashcam_only, files, template, cars_md, printed, log>>

\* dashcam_only = any(...); with open(out, 'w') as f
OpenOut ==
  /\ pc = "open"
  /\ dashcam_only' = IsDashcamTemplate(args_template[idx], args_dashcam_only)
  /\ files' = [files EXCEPT ![args_out[idx]] = File("empty", NoMd)]
  /\ log' = Append(log, Event("open", idx))
  /\ pc' = NextStep("open")
  /\ RunUnchanged
  /\ UNCHANGED <<footnotes, footnote_texts, rec_row, calls, all_car_info, sorted_cars,
                 grouped, idx, template, cars_md, printed, err>>

\* get_all_car_info(dashcam_only=dashcam_only)
Gather ==
  /\ pc = "gather"
  /\ LET fns == get_all_footnotes(common_footnotes, brand_footnotes)
         g == Collect(rec_row, calls, interfaces, model_dashcam, model_info,
                      dashcam_only, fns)
     IN  /\ footnotes' = fns
         /\ rec_row' = g.row
         /\ calls' = g.calls
         /\ log' = Append(log, Event("gather", idx))
         /\ IF g.err = "none"
            THEN /\ all_car_info' = g.list
                 /\ sorted_cars' = natsorted(rec_name, g.list)
                 /\ pc' = NextStep("gather")
                 /\ err' = err
            ELSE /\ UNCHANGED <<all_car_info, sorted_cars>>
                 /\ pc' = "error"
                 /\ err' = g.err
  /\ RunUnchanged
  /\ UNCHANGED <<footnote_texts, grouped, idx, dashcam_only, files, template,
                 cars_md, printed>>

\* with open(template_fn, "r") as f: template = jinja2.Template(f.read(), ...)
ReadTemplate ==
  /\ pc = "read"
  /\ log' = Append(log, Event("read", idx))
  /\ IF template_fs[args_template[idx]] = "missing"
     THEN pc' = "error" /\ err' = "FileNotFoundError" /\ template' = template
     ELSE pc' = NextStep("read") /\ err' = err /\ template' = args_template[idx]
  /\ RunUnchanged
  /\ UNCHANGED <<footnotes, footnote_texts, rec_row, calls, all_car_info, sorted_cars,
                 grouped, idx, dashcam_only, files, cars_md, printed>>

\* footnotes = [...]; cars_md = template.render(...)
Render ==
  /\ pc = "render"
  /\ log' = Append(log, Event("render", idx))
  /\ LET texts == FootnoteTextList(get_all_footnotes(common_footnotes, brand_footnotes))
     IN  /\ footnote_texts' = texts
         /\ IF template_fs[template] = "bad"
            THEN pc' = "error" /\ err' = "TemplateError" /\ cars_md' = cars_md
            ELSE /\ pc' = NextStep("render")
                 /\ err' = err
                 /\ cars_md' = RenderMd(template, sorted_cars, texts, rec_make)
  /\ RunUnchanged
  /\ UNCHANGED <<footnotes, rec_row, calls, all_car_info, sorted_cars, grouped, idx,
                 dashcam_only, files, template, printed>>

\* f.write(...), and the file closed at the end of the with block
WriteOut ==
  /\ pc = "write"
  /\ files' = [files EXCEPT ![args_out[idx]] = File("written", cars_md)]
  /\ log' = Append(log, Event("write", idx))
  /\ pc' = NextStep("write")
  /\ RunUnchanged
  /\ UNCHANGED <<footnotes, footnote_texts, rec_row, calls, all_car_info, sorted_cars,
                 grouped, idx, dashcam_only, template, cars_md, printed, err>>

\* print(f"Generated and written to {out}")
PrintLine ==
  /\ pc = "print"
  /\ printed' = Append(printed, args_out[idx])
  /\ log' = Append(log, Event("print", idx))
  /\ pc' = "zip"
  /\ RunUnchanged
  /\ UNCHANGED <<footnotes, footnote_texts, rec_row, calls, all_car_info, sorted_cars,
                 grouped, idx, dashcam_only, files, template, cars_md, err>>

(***************************************************************************)
(* The run of the script.                                                  *)
(***************************************************************************)
Name(r) ==
  IF r = "r1" THEN <<"M", "o", "d", "e", "l", " ", "1", "0">>
  ELSE IF r = "r2" THEN <<"M", "o", "d", "e", "l", " ", "3">>
  ELSE <<"m", "o", "d", "e", "l", " ", "2">>

\* the registries the runs start from: r1 is shared by m1 and m2
Registries ==
  { [m \in Models |-> IF m = "m1" THEN OneInfo("r1")
                      ELSE IF m = "m2" THEN ListInfo(<<"r2", "r1">>)
                      ELSE last] : last \in {NoInfo, OneInfo("r3")} }

TemplateStates ==
  [Templates -> {"ok", "missing", "bad"}]

InitFootnotes ==
  /\ common_footnotes = <<"fnA">>
  /\ brand_footnotes = << <<"fnB">>, <<"fnC">> >>
  /\ footnotes = <<>>
  /\ footnote_texts = <<>>

InitRecords ==
  /\ rec_name = [r \in Records |-> Name(r)]
  /\ rec_make = [r \in Records |-> IF r = "r2" THEN "Y" ELSE "X"]
  /\ rec_row = [r \in Records |-> NoRow]
  /\ calls = <<>>
  /\ all_car_info = <<>>
  /\ sorted_cars = <<>>
  /\ grouped = <<>>

InitRegistry ==
  /\ model_dashcam \in [Models -> BOOLEAN]
  /\ model_info \in Registries
  /\ interfaces \in {Models, Models \ {"m2"}}

InitArgs ==
  /\ args_out \in NonEmptySeqsUpTo(Paths, MaxPairs)
  /\ args_template \in NonEmptySeqsUpTo(Templates, MaxPairs)
  /\ args_dashcam_only \in NonEmptySeqsUpTo(Templates, 1)
  /\ template_fs \in TemplateStates

InitRun ==
  /\ idx = 0
  /\ dashcam_only = FALSE
  /\ files = InitialFiles
  /\ template = "-"
  /\ cars_md = NoMd
  /\ printed = <<>>
  /\ log = <<>>
  /\ err = "none"

Init ==
  /\ pc = "zip"
  /\ InitFootnotes
  /\ InitRecords
  /\ InitRegistry
  /\ InitArgs
  /\ InitRun

Next ==
  \/ ZipNext
  \/ OpenOut
  \/ Gather
  \/ ReadTemplate
  \/ Render
  \/ WriteOut
  \/ PrintLine

Spec == Init /\ [][Next]_vars

(***************************************************************************)
(* The functions on their own, over every input within the bounds.         *)
(***************************************************************************)
PureUnchanged == UNCHANGED <<common_footnotes, brand_footnotes, rec_name, rec_make,
                             rec_row, calls, model_dashcam, model_info, interfaces,
                             all_car_info, args_out, args_template, args_dashcam_only,
                             template_fs, idx, dashcam_only, files, template, cars_md,
                             printed, log, err>>

InitIdleRegistry ==
  /\ model_dashcam = [m \in Models |-> FALSE]
  /\ model_info = [m \in Models |-> NoInfo]
  /\ interfaces = Models

InitIdleArgs ==
  /\ args_out = <<"o1">>
  /\ args_template = <<"t1">>
  /\ args_dashcam_only = <<"t2">>
  /\ template_fs = [t \in Templates |-> "ok"]

\* footnotes = get_all_footnotes()
IndexFootnotes ==
  /\ pc = "fn_input"
  /\ footnotes' = get_all_footnotes(common_footnotes, brand_footnotes)
  /\ pc' = "fn_indexed"
  /\ PureUnchanged
  /\ UNCHANGED <<footnote_texts, sorted_cars, grouped>>

\* footnotes = [fn.value.text for fn in get_all_footnotes()]
ListFootnoteTexts ==
  /\ pc = "fn_indexed"
  /\ footnote_texts' = FootnoteTextList(get_all_footnotes(common_footnotes, brand_footnotes))
  /\ pc' = "fn_listed"
  /\ PureUnchanged
  /\ UNCHANGED <<footnotes, sorted_cars, grouped>>

InitFn ==
  /\ pc = "fn_input"
  /\ common_footnotes \in EnumLists(Footnotes, MaxFootnotes)
  /\ brand_footnotes \in SeqsUpTo(EnumLists(Footnotes, MaxFootnotes), MaxBrands)
  /\ footnotes = <<>>
  /\ footnote_texts = <<>>
  /\ InitRecords
  /\ InitIdleRegistry
  /\ InitIdleArgs
  /\ InitRun

NextFn == IndexFootnotes \/ ListFootnoteTexts

SpecFn == InitFn /\ [][NextFn]_vars

\* sorted_cars = natsorted(all_car_info, key=...)
SortCars ==
  /\ pc = "sort_input"
  /\ sorted_cars' = natsorted(rec_name, all_car_info)
  /\ pc' = "sorted"
  /\ PureUnchanged
  /\ UNCHANGED <<footnotes, footnote_texts, grouped>>

\* group_by_make(all_car_info)
GroupCars ==
  /\ pc = "group_input"
  /\ grouped' = group_by_make(rec_make, all_car_info)
  /\ pc' = "grouped"
  /\ PureUnchanged
  /\ UNCHANGED <<footnotes, footnote_texts, sorted_cars>>

InitSort ==
  /\ pc = "sort_input"
  /\ InitFootnotes
  /\ rec_name \in [Records -> Names]
  /\ rec_make = [r \in Records |-> "X"]
  /\ rec_row = [r \in Records |-> NoRow]
  /\ calls = <<>>
  /\ all_car_info \in SeqsUpTo(Records, MaxCars)
  /\ sorted_cars = <<>>
  /\ grouped = <<>>
  /\ InitIdleRegistry
  /\ InitIdleArgs
  /\ InitRun

NextSort == SortCars

SpecSort == InitSort /\ [][NextSort]_vars

InitGroup ==
  /\ pc = "group_input"
  /\ InitFootnotes
  /\ rec_name = [r \in Records |-> Name(r)]
  /\ rec_make \in [Records -> Makes]
  /\ rec_row = [r \in Records |-> NoRow]
  /\ calls = <<>>
  /\ all_car_info \in SeqsUpTo(Records, MaxCars)
  /\ sorted_cars = <<>>
  /\ grouped = <<>>
  /\ InitIdleRegistry
  /\ InitIdleArgs
  /\ InitRun

NextGroup == GroupCars

SpecGroup == InitGroup /\ [][NextGroup]_vars

(***************************************************************************)
(* Properties.                                                             *)
(***************************************************************************)
IsPrefix(a, b) == Len(a) <= Len(b) /\ a = SubSeq(b, 1, Len(a))

Count(lst, x) == Cardinality({i \in 1..Len(lst) : lst[i] = x})

\* the steps logged for pair k, in order
PairLog(k) ==
  LET OfPair(e) == e[2] = k
      evs == SelectSeq(log, OfPair)
  IN  [i \in 1..Len(evs) |-> evs[i][1]]

\* C1: when --out and --template differ in length, the run fails before any
\* file I/O: no output file is opened, truncated or written, and no pair is
\* processed.
C1_NoIOBeforeLengthError ==
  (pc = "error" /\ err = "ValueError") =>
    /\ Len(args_out) # Len(args_template)
    /\ files = InitialFiles
    /\ log = <<>>
    /\ printed = <<>>

\* the footnotes that occur in the common set or in a brand's list
InputFootnotes == Range(AllFootnotesList(common_footnotes, brand_footnotes))

\* no footnote occurs twice across the common set and the brands' lists
FootnotesGloballyUnique ==
  LET all == AllFootnotesList(common_footnotes, brand_footnotes)
  IN  Cardinality(Range(all)) = Len(all)

DictValues(d) == {d[i][2] : i \in 1..Len(d)}

\* d maps the input footnotes one-to-one onto 1..N, N the number of distinct ones
IsDenseIndex(d) ==
  /\ Range(DictKeys(d)) = InputFootnotes
  /\ Len(d) = Cardinality(InputFootnotes)
  /\ DictValues(d) = 1..Cardinality(InputFootnotes)

\* every common footnote is indexed below every footnote only a brand has
CommonBelowBrandOnly(d) ==
  \A c \in Range(common_footnotes) :
    \A b \in InputFootnotes \ Range(common_footnotes) :
      DictGet(d, c) < DictGet(d, b)

\* C2 as stated: for every common set and every sequence of brand lists the
\* mapping is a bijection onto 1..N and common footnotes come before brand-only ones.
C2_DenseIndexForAnyLists ==
  pc \in {"fn_indexed", "fn_listed"} =>
    IsDenseIndex(footnotes) /\ CommonBelowBrandOnly(footnotes)

\* C2 amended: when no footnote occurs twice across the common set and the
\* brands' lists, the mapping is a bijection onto 1..N and common footnotes
\* are indexed below brand-only ones; in every case the index of a footnote is
\* the 1-based place of its last occurrence in the concatenated list.
C2_DenseIndexWhenUnique ==
  pc \in {"fn_indexed", "fn_listed"} =>
    /\ FootnotesGloballyUnique =>
         IsDenseIndex(footnotes) /\ CommonBelowBrandOnly(footnotes)
    /\ LET all == AllFootnotesList(common_footnotes, brand_footnotes)
       IN  /\ Range(DictKeys(footnotes)) = Range(all)
           /\ \A fn \in Range(all) :
                /\ all[DictGet(footnotes, fn)] = fn
                /\ \A j \in 1..Len(all) : all[j] = fn => j <= DictGet(footnotes, fn)

C2_Witness ==
  /\ pc = "fn_indexed"
  /\ FootnotesGloballyUnique
  /\ Len(common_footnotes) = 2
  /\ Len(brand_footnotes) = 2
  /\ Len(footnotes) = 3

\* text[i-1] is the text of the footnote with index i, one entry per index
TextsFollowIndex(d, texts) ==
  /\ Len(texts) = Cardinality(DictValues(d))
  /\ \A k \in 1..Len(d) :
       /\ d[k][2] \in 1..Len(texts)
       /\ texts[d[k][2]] = FootnoteText(d[k][1])

\* C3 as stated: the text list is ordered by the index mapping, whatever the lists.
C3_TextsFollowIndexForAnyLists ==
  pc = "fn_listed" => TextsFollowIndex(footnotes, footnote_texts)

\* C3 amended: when no footnote occurs twice across the common set and the
\* brands' lists, element i-1 of the text list is the text of the footnote
\* with index i and the list has one entry per index.
C3_TextsFollowIndexWhenUnique ==
  (pc = "fn_listed" /\ FootnotesGloballyUnique) =>
    TextsFollowIndex(footnotes, footnote_texts)

C3_Witness ==
  /\ pc = "fn_listed"
  /\ FootnotesGloballyUnique
  /\ Len(footnote_texts) = 3
  /\ footnote_texts[1] # footnote_texts[2]

\* the records of the models whose dashcam-only flag equals the filter and
\* whose car-info is registered
MatchingModels(want) ==
  {m \in Models : model_dashcam[m] = want /\ model_info[m].kind # "none"}

MatchingRecords(want) ==
  UNION {Range(model_info[m].recs) : m \in MatchingModels(want)}

\* C4: a record of a dashcam-only model is in the result exactly when the
\* filter is true (and symmetrically), and a model whose car-info is None
\* contributes nothing for either filter value.
C4_FilterByDashcamOnly ==
  pc = "read" =>
    /\ Range(sorted_cars) = MatchingRecords(dashcam_only)
    /\ \A r \in Records :
         Count(sorted_cars, r) =
           Cardinality({m \in MatchingModels(dashcam_only) : r \in Range(model_info[m].recs)})
    /\ "None" \notin Range(sorted_cars)

C4_Witness ==
  /\ pc = "read"
  /\ dashcam_only
  /\ \E m \in Models : model_dashcam[m] /\ model_info[m].kind = "none"
  /\ \E m \in Models : ~model_dashcam[m] /\ model_info[m].kind # "none"
  /\ sorted_cars # <<>>

JustGathered == log # <<>> /\ log[Len(log)][1] = "gather"

NaturalLeq(a, b) == ~KeyLess(NatKey(Lower(b)), NatKey(Lower(a)))

\* the records of lst whose lower-cased name is that of r, in their order in lst
SameLowerName(lst, r) ==
  LET Same(x) == Lower(rec_name[x]) = Lower(rec_name[r])
  IN  SelectSeq(lst, Same)

ExampleNames ==
  [r \in Records |-> IF r = "r1" THEN <<"M", "o", "d", "e", "l", " ", "1", "0">>
                     ELSE IF r = "r2" THEN <<"M", "o", "d", "e", "l", " ", "3">>
                     ELSE <<"m", "o", "d", "e", "l", " ", "2">>]

\* C6: the returned list is a permutation of the collected records, ordered
\* by name case-insensitively in natural order, records with equal lower-cased
\* names keeping their collection order; ["Model 10", "Model 3", "model 2"]
\* comes out as ["model 2", "Model 3", "Model 10"].
C6_StableNaturalSort ==
  pc = "sorted" =>
    /\ Len(sorted_cars) = Len(all_car_info)
    /\ \A r \in Records : Count(sorted_cars, r) = Count(all_car_info, r)
    /\ \A i \in 1..(Len(sorted_cars) - 1) :
         NaturalLeq(rec_name[sorted_cars[i]], rec_name[sorted_cars[i + 1]])
    /\ \A r \in Records : SameLowerName(sorted_cars, r) = SameLowerName(all_car_info, r)
    /\ (rec_name = ExampleNames /\ all_car_info = <<"r1", "r2", "r3">>) =>
         sorted_cars = <<"r3", "r2", "r1">>

C6_Witness ==
  /\ pc = "sorted"
  /\ Len(all_car_info) = 3
  /\ Cardinality(Range(all_car_info)) = 3
  /\ sorted_cars # all_car_info
  /\ \E i, j \in 1..3 :
       /\ i < j
       /\ rec_name[sorted_cars[i]] # rec_name[sorted_cars[j]]
       /\ Lower(rec_name[sorted_cars[i]]) = Lower(rec_name[sorted_cars[j]])

\* the records of lst whose make is k, in their order in lst
OfMake(lst, k) ==
  LET Is(x) == rec_make[x] = k
  IN  SelectSeq(lst, Is)

\* C7: the keys of the mapping are exactly the makes of the input and each
\* make maps to the input's records of that make, in input order.
C7_GroupKeepsOrder ==
  pc = "grouped" =>
    /\ Range(DictKeys(grouped)) = {rec_make[r] : r \in Range(all_car_info)}
    /\ Len(grouped) = Cardinality({rec_make[r] : r \in Range(all_car_info)})
    /\ \A k \in Range(DictKeys(grouped)) : DictGet(grouped, k) = OfMake(all_car_info, k)

C7_Witness ==
  /\ pc = "grouped"
  /\ all_car_info = <<"r1", "r2", "r3">>
  /\ rec_make["r1"] = "X" /\ rec_make["r2"] = "Y" /\ rec_make["r3"] = "X"
  /\ grouped = << <<"X", <<"r1", "r3">> >>, <<"Y", <<"r2">> >> >>

\* C8 as stated: per pair the order is read the template, gather, render,
\* write, print.
C8_ReadBeforeGather ==
  \A k \in 1..idx :
    LET AfterOpen(x) == x # "open"
    IN  "print" \in Range(PairLog(k)) =>
          SelectSeq(PairLog(k), AfterOpen) = <<"read", "gather", "render", "write", "print">>

\* C8 amended: per pair the order is open (truncate) the output, gather the
\* car-info filtered by whether the template is in the dashcam-only list, read
\* the template, render, write, print; the line of a pair is printed only
\* after its output has been written.
C8_GatherBeforeRead ==
  /\ \A k \in 1..idx :
       IsPrefix(PairLog(k), <<"open", "gather", "read", "render", "write", "print">>)
  /\ pc = "gather" =>
       dashcam_only = (args_template[idx] \in Range(args_dashcam_only))
  /\ Len(printed) <= idx
  /\ \A k \in 1..Len(printed) :
       /\ printed[k] = args_out[k]
       /\ files[args_out[k]].state \in {"written", "empty"}
       /\ \E i, j \in 1..Len(log) : i < j /\ log[i] = <<"write", k>> /\ log[j] = <<"print", k>>

C8_Witness ==
  /\ pc = "done"
  /\ idx = 2
  /\ printed = <<"o1", "o2">>
  /\ files["o2"].state = "written"
  /\ files["o2"].md.cars # <<>>

\* the names of the calls made on record r, in order
CallsOn(cs, r) ==
  LET On(c) == c[2] = r
      sel == SelectSeq(cs, On)
  IN  [i \in 1..Len(sel) |-> sel[i][1]]

\* C9: a record is initialised at most once, init_make then init; once it has
\* its "row", no call is made on it again and its display fields stay as they are.
C9_InitOnce ==
  [][\A r \in Records :
       IF rec_row[r].has_row
       THEN rec_row'[r] = rec_row[r] /\ CallsOn(calls', r) = CallsOn(calls, r)
       ELSE \/ ~rec_row'[r].has_row /\ CallsOn(calls', r) = <<>>
            \/ rec_row'[r].has_row /\ CallsOn(calls', r) = <<"init_make", "init">>]_vars

C9_Witness ==
  /\ idx = 2
  /\ pc = "read"
  /\ Count(all_car_info, "r1") = 2
  /\ rec_row["r1"].has_row
  /\ Len(calls) = 4

\* the last pair before pair k that wrote to the path of pair j
LastWriter(j, k) ==
  CHOOSE w \in j..(k - 1) :
    /\ args_out[w] = args_out[j]
    /\ \A v \in (w + 1)..(k - 1) : args_out[v] # args_out[j]

FailedInPair == pc = "error" /\ err \in {"KeyError", "FileNotFoundError", "TemplateError"}

\* C10 as stated: the output is opened before gathering, reading and
\* rendering, so when one of them fails the pair's output exists and is empty
\* while the outputs of the earlier pairs stay fully written.
C10_EarlierOutputsStayWritten ==
  FailedInPair =>
    /\ PairLog(idx)[1] = "open"
    /\ files[args_out[idx]] = File("empty", NoMd)
    /\ \A j \in 1..(idx - 1) : files[args_out[j]].state = "written"

\* C10 amended: the same, for the earlier pairs whose output path is not
\* the failing pair's own path.
C10_OtherOutputsStayWritten ==
  FailedInPair =>
    /\ PairLog(idx)[1] = "open"
    /\ files[args_out[idx]] = File("empty", NoMd)
    /\ \A j \in 1..(idx - 1) :
         args_out[j] # args_out[idx] =>
           /\ files[args_out[j]].state = "written"
           /\ files[args_out[j]].md.template = args_template[LastWriter(j, idx)]

C10_Witness ==
  /\ FailedInPair
  /\ idx = 2
  /\ args_out = <<"o2", "o1">>
  /\ files["o1"] = File("empty", NoMd)
  /\ files["o2"].state = "written"

====
